---- MODULE Spec2Model ----
(***************************************************************************)
(* The in-memory review store of internal/store/store.go: teams, users and *)
(* pull requests behind one lock, with reviewer selection and reviewer     *)
(* reassignment.  Every exported method runs under s.mu from its first     *)
(* statement to its return: a call made alone is one atomic action, and    *)
(* calls made at the same time go step by step through the lock.           *)
(***************************************************************************)
EXTENDS Integers, Sequences, FiniteSets, TLC

----------------------------------------------------------------------------
(* Bounds of the model and the input alphabets.                            *)

\* longest members slice handed to CreateTeam
MaxMembers == 2
\* time.Now() answers a value in 0..MaxTime
MaxTime == 1

\* the user IDs callers pass, in ascending order of Go's string comparison
UserOrder == <<"u1", "u2", "u3", "u4">>
UserIDs == {UserOrder[i] : i \in 1..Len(UserOrder)}
\* the pull request IDs callers pass, in ascending order
PROrder == <<"p1", "p2">>
PRIDs == {PROrder[i] : i \in 1..Len(PROrder)}
\* the team names callers pass; CreateTeam takes the empty string as well
TeamNames == {"a", "b"}
TeamNamesWithEmpty == {"", "a"}
Usernames == {"n1", "n2"}
PRNames == {"fix"}
Times == 0..MaxTime

----------------------------------------------------------------------------
(* Constants of the package.                                               *)

StatusOpen == "OPEN"
StatusMerged == "MERGED"

ErrNil == "nil"
ErrTeamExists == "team already exists"
ErrTeamNotFound == "team not found"
ErrUserNotFound == "user not found"
ErrPullRequestExists == "pull request already exists"
ErrPullRequestNotFound == "pull request not found"
ErrPullRequestMerged == "pull request merged"
ErrReviewerNotAssigned == "reviewer not assigned"
ErrNoReplacementCandidate == "no replacement candidate"

----------------------------------------------------------------------------
(* State.  teams: name -> set of member IDs (teamRecord.Members);          *)
(* users: ID -> User; prs: ID -> PullRequest; ret: what the last call      *)
(* was handed and what it returned; mu: the sync.RWMutex (writer held,     *)
(* number of readers); pc: where each goroutine is in its call; calls:     *)
(* the call each goroutine is in or has last made.                         *)

VARIABLES teams, users, prs, ret, mu, pc, calls

vars == <<teams, users, prs, ret, mu, pc, calls>>

\* the goroutines that call the store at the same time
Goroutines == {"g1", "g2"}

\* the second argument recorded for a call that takes none
NoArg == <<>>

\* a goroutine that is not in a call and has made none
NoCall ==
    [op |-> "", id |-> "", arg |-> NoArg, pre |-> FALSE, seen |-> FALSE,
     err |-> "", out |-> <<>>]

\* a *time.Time: <<>> is nil, <<t>> points at t
NilTime == <<>>

\* the value a call returns: op and arguments, the error, and the result
Return(op, id, arg, err, out) ==
    [op |-> op, id |-> id, arg |-> arg, err |-> err, out |-> out]

\* the elements of a sequence
Range(s) == {s[i] : i \in 1..Len(s)}

\* sequences over S of length at most n
SeqsUpTo(S, n) == UNION {[1..k -> S] : k \in 0..n}

\* the sequences of length k over S without repetition
Arrangements(S, k) ==
    {s \in [1..k -> S] : \A i, j \in 1..k : i # j => s[i] # s[j]}

Min(a, b) == IF a < b THEN a ELSE b

----------------------------------------------------------------------------
(* Views and copies handed back to callers.                                *)

\* cloneUser: a new User holding the fields of u
cloneUser(u) ==
    [ID |-> u.ID, Username |-> u.Username, TeamName |-> u.TeamName,
     IsActive |-> u.IsActive]

\* clonePullRequest: a new PullRequest holding the fields of pr, a new slice
\* with the reviewers in their order and a new MergedAt with the same time
clonePullRequest(pr) ==
    [ID |-> pr.ID, Name |-> pr.Name, AuthorID |-> pr.AuthorID,
     Status |-> pr.Status,
     AssignedReviewers |->
        [i \in 1..Len(pr.AssignedReviewers) |-> pr.AssignedReviewers[i]],
     CreatedAt |-> pr.CreatedAt,
     MergedAt |-> IF pr.MergedAt = NilTime THEN NilTime ELSE <<pr.MergedAt[1]>>]

\* a team listing that keeps the opposite order of user IDs
SortByUserIDDescending(S) ==
    LET asc == SelectSeq(UserOrder, LAMBDA id : id \in S)
    IN  [i \in 1..Len(asc) |-> asc[Len(asc) + 1 - i]]

\* sort.Slice by UserID over distinct IDs: the IDs of S in ascending order
SortByUserID(S) == SelectSeq(UserOrder, LAMBDA id : id \in S)

\* buildTeamLocked: the team's members that are registered users, as
\* TeamMember records sorted by UserID
buildTeamLocked(us, name, memberSet) ==
    LET ids == SortByUserID({id \in memberSet : id \in DOMAIN us})
    IN  [Name |-> name,
         Members |-> [i \in 1..Len(ids) |->
                        [UserID |-> ids[i],
                         Username |-> us[ids[i]].Username,
                         IsActive |-> us[ids[i]].IsActive]]]

----------------------------------------------------------------------------
(* CreateTeam and upsertUserLocked.                                        *)

\* the TeamMemberInput values whose UserID is in ids
MemberInputs(ids) ==
    [UserID : ids, Username : Usernames, IsActive : BOOLEAN]

\* an upsertUserLocked that leaves the TeamName of the user as it was
upsertUserLockedKeepingTeamName(st, id, username, teamName, isActive) ==
    LET old == IF id \in DOMAIN st.users
               THEN st.users[id]
               ELSE [ID |-> id, Username |-> "", TeamName |-> "", IsActive |-> FALSE]
        new == [ID |-> id, Username |-> username, TeamName |-> old.TeamName,
                IsActive |-> isActive]
    IN  [teams |-> st.teams, users |-> (id :> new) @@ st.users]

\* upsertUserLocked on the store <<teams, users>> st: create the user if
\* absent, take it out of the member set of the team its TeamName names when
\* that name is non-empty and differs from teamName, then overwrite its fields
upsertUserLocked(st, id, username, teamName, isActive) ==
    LET old == IF id \in DOMAIN st.users
               THEN st.users[id]
               ELSE [ID |-> id, Username |-> "", TeamName |-> "", IsActive |-> FALSE]
        ts  == IF /\ old.TeamName # ""
                  /\ old.TeamName # teamName
                  /\ old.TeamName \in DOMAIN st.teams
               THEN [st.teams EXCEPT ![old.TeamName] = @ \ {id}]
               ELSE st.teams
        new == [ID |-> id, Username |-> username, TeamName |-> teamName,
                IsActive |-> isActive]
    IN  [teams |-> ts, users |-> (id :> new) @@ st.users]

\* the loop of CreateTeam over members[i..]: skip an empty UserID, otherwise
\* upsert the user and add its ID to the new team's member set
RECURSIVE CreateTeamLoop(_, _, _, _)
CreateTeamLoop(st, name, members, i) ==
    IF i > Len(members) THEN st
    ELSE IF members[i].UserID = "" THEN CreateTeamLoop(st, name, members, i + 1)
    ELSE LET m  == members[i]
             s1 == upsertUserLocked(st, m.UserID, m.Username, name, m.IsActive)
             s2 == [s1 EXCEPT !.teams[name] = @ \cup {m.UserID}]
         IN  CreateTeamLoop(s2, name, members, i + 1)

\* a CreateTeam that registers the name again over the existing team
CreateTeamErrOverwriting(name) == ErrNil

\* the error CreateTeam returns before it touches the store, or ErrNil
CreateTeamErr(name) ==
    IF name \in DOMAIN teams THEN ErrTeamExists ELSE ErrNil

\* a CreateTeam that upserts the members before it finds the name taken
CreateTeamUpsertingFirst(name, members) ==
    LET st0 == [teams |-> IF name \in DOMAIN teams THEN teams
                          ELSE (name :> {}) @@ teams,
                users |-> users]
        st1 == CreateTeamLoop(st0, name, members, 1)
    IN  /\ teams' = st1.teams
        /\ users' = st1.users
        /\ ret' = IF name \in DOMAIN teams
                  THEN Return("CreateTeam", name, NoArg, ErrTeamExists, <<>>)
                  ELSE Return("CreateTeam", name, members, ErrNil,
                              <<buildTeamLocked(st1.users, name, st1.teams[name])>>)
        /\ UNCHANGED prs

CreateTeam(name, members) ==
    IF CreateTeamErr(name) # ErrNil
    THEN /\ ret' = Return("CreateTeam", name, NoArg, ErrTeamExists, <<>>)
         /\ UNCHANGED <<teams, users, prs>>
    ELSE LET st0 == [teams |-> (name :> {}) @@ teams, users |-> users]
             st1 == CreateTeamLoop(st0, name, members, 1)
         IN  /\ teams' = st1.teams
             /\ users' = st1.users
             /\ ret' = Return("CreateTeam", name, members, ErrNil,
                              <<buildTeamLocked(st1.users, name, st1.teams[name])>>)
             /\ UNCHANGED prs

----------------------------------------------------------------------------
(* SetUserActive.                                                          *)

\* a SetUserActive that takes a deactivated user off the reviewer lists
SetUserActiveUnassigning(userID, isActive) ==
    IF userID \notin DOMAIN users
    THEN /\ ret' = Return("SetUserActive", userID, isActive, ErrUserNotFound, <<>>)
         /\ UNCHANGED <<teams, users, prs>>
    ELSE /\ users' = [users EXCEPT ![userID].IsActive = isActive]
         /\ prs' = [id \in DOMAIN prs |->
                      IF isActive THEN prs[id]
                      ELSE [prs[id] EXCEPT !.AssignedReviewers =
                               SelectSeq(@, LAMBDA r : r # userID)]]
         /\ ret' = Return("SetUserActive", userID, isActive, ErrNil,
                          <<cloneUser(users'[userID])>>)
         /\ UNCHANGED teams

SetUserActive(userID, isActive) ==
    IF userID \notin DOMAIN users
    THEN /\ ret' = Return("SetUserActive", userID, isActive, ErrUserNotFound, <<>>)
         /\ UNCHANGED <<teams, users, prs>>
    ELSE /\ users' = [users EXCEPT ![userID].IsActive = isActive]
         /\ ret' = Return("SetUserActive", userID, isActive, ErrNil,
                          <<cloneUser(users'[userID])>>)
         /\ UNCHANGED <<teams, prs>>

----------------------------------------------------------------------------
(* CreatePullRequest and pickReviewersLocked.                              *)

\* candidates that do not leave the author out
ReviewerCandidatesWithAuthor(memberSet, authorID) ==
    {id \in memberSet : id \in DOMAIN users /\ users[id].IsActive}

\* the candidates of pickReviewersLocked: the members of the team other than
\* the author that are registered and active
ReviewerCandidates(memberSet, authorID) ==
    {id \in memberSet : /\ id # authorID
                          /\ id \in DOMAIN users
                          /\ users[id].IsActive}

\* a limit of three reviewers
ReviewerLimitThree(n) == Min(3, n)

\* limit := 2, lowered to len(candidates)
ReviewerLimit(n) == Min(2, n)

\* pickReviewersLocked: the lists it can return.  The candidates are
\* collected in map order and shuffled, so the first limit entries are any
\* limit distinct candidates in any order; no candidate gives nil.
pickReviewersLocked(memberSet, authorID) ==
    LET candidates == ReviewerCandidates(memberSet, authorID)
    IN  IF candidates = {} THEN {<<>>}
        ELSE Arrangements(candidates, ReviewerLimit(Cardinality(candidates)))

\* CreatePullRequest's checks with the author resolved before the ID
CreatePullRequestErrAuthorFirst(id, authorID) ==
    IF authorID \notin DOMAIN users THEN ErrUserNotFound
    ELSE IF users[authorID].TeamName = "" THEN ErrTeamNotFound
    ELSE IF users[authorID].TeamName \notin DOMAIN teams THEN ErrTeamNotFound
    ELSE IF id \in DOMAIN prs THEN ErrPullRequestExists
    ELSE ErrNil

\* the error CreatePullRequest returns before it picks reviewers, or ErrNil
CreatePullRequestErr(id, authorID) ==
    IF id \in DOMAIN prs THEN ErrPullRequestExists
    ELSE IF authorID \notin DOMAIN users THEN ErrUserNotFound
    ELSE IF users[authorID].TeamName = "" THEN ErrTeamNotFound
    ELSE IF users[authorID].TeamName \notin DOMAIN teams THEN ErrTeamNotFound
    ELSE ErrNil

\* now is what time.Now().UTC() answers in this call
CreatePullRequest(id, name, authorID, now) ==
    LET err == CreatePullRequestErr(id, authorID)
    IN  IF err # ErrNil
        THEN /\ ret' = Return("CreatePullRequest", id, authorID, err, <<>>)
             /\ UNCHANGED <<teams, users, prs>>
        ELSE \E reviewers \in pickReviewersLocked(teams[users[authorID].TeamName], authorID) :
               LET pr == [ID |-> id, Name |-> name, AuthorID |-> authorID,
                          Status |-> StatusOpen, AssignedReviewers |-> reviewers,
                          CreatedAt |-> now, MergedAt |-> NilTime]
               IN  /\ prs' = (id :> pr) @@ prs
                   /\ ret' = Return("CreatePullRequest", id, authorID, ErrNil,
                                    <<clonePullRequest(pr)>>)
                   /\ UNCHANGED <<teams, users>>

----------------------------------------------------------------------------
(* MergePullRequest.                                                       *)

\* a merge that stamps the record whatever its status
MergedRecordRestamped(pr, now) ==
    [pr EXCEPT !.Status = StatusMerged, !.MergedAt = <<now>>]

\* the record MergePullRequest leaves for pr when time.Now().UTC() is now
MergedRecord(pr, now) ==
    IF pr.Status # StatusMerged
    THEN [pr EXCEPT !.Status = StatusMerged,
                    !.MergedAt = IF pr.MergedAt = NilTime THEN <<now>> ELSE @]
    ELSE pr

MergePullRequest(prID, now) ==
    IF prID \notin DOMAIN prs
    THEN /\ ret' = Return("MergePullRequest", prID, now, ErrPullRequestNotFound, <<>>)
         /\ UNCHANGED <<teams, users, prs>>
    ELSE /\ prs' = [prs EXCEPT ![prID] = MergedRecord(@, now)]
         /\ ret' = Return("MergePullRequest", prID, now, ErrNil,
                          <<clonePullRequest(prs'[prID])>>)
         /\ UNCHANGED <<teams, users>>

----------------------------------------------------------------------------
(* ReassignReviewer and pickReplacementCandidatesLocked.                   *)

\* a search that reports the first slot whenever id is in the list
IndexOfFirstSlot(list, id) ==
    IF \E i \in 1..Len(list) : list[i] = id THEN 1 ELSE 0

\* the first index of id in the list, 0 when absent (index -1 in the code)
IndexOf(list, id) ==
    IF \E i \in 1..Len(list) : list[i] = id
    THEN CHOOSE i \in 1..Len(list) :
            /\ list[i] = id
            /\ \A j \in 1..(i - 1) : list[j] # id
    ELSE 0

\* replacement candidates that do not leave out the users already assigned
pickReplacementCandidatesAssignedToo(memberSet, authorID, assigned, skip) ==
    {id \in memberSet : /\ id # skip
                          /\ id # authorID
                          /\ id \in DOMAIN users
                          /\ users[id].IsActive}

\* replacement candidates that do not leave out the inactive users
pickReplacementCandidatesInactiveToo(memberSet, authorID, assigned, skip) ==
    {id \in memberSet : /\ id # skip
                          /\ id # authorID
                          /\ id \notin {a \in Range(assigned) : a # skip}
                          /\ id \in DOMAIN users}

\* pickReplacementCandidatesLocked: the members of the team that are not
\* skip, not the author, not assigned (skip aside), registered and active
pickReplacementCandidatesLocked(memberSet, authorID, assigned, skip) ==
    LET assignedSet == {id \in Range(assigned) : id # skip}
    IN  {id \in memberSet : /\ id # skip
                              /\ id # authorID
                              /\ id \notin assignedSet
                              /\ id \in DOMAIN users
                              /\ users[id].IsActive}

\* replacement candidates drawn from every registered user, whatever the team
ReplacementCandidatesAnyTeam(prID, oldReviewerID) ==
    pickReplacementCandidatesLocked(
        DOMAIN users, prs[prID].AuthorID,
        prs[prID].AssignedReviewers, oldReviewerID)

\* the replacement candidates ReassignReviewer(prID, oldReviewerID) draws from
ReplacementCandidates(prID, oldReviewerID) ==
    pickReplacementCandidatesLocked(
        teams[users[oldReviewerID].TeamName], prs[prID].AuthorID,
        prs[prID].AssignedReviewers, oldReviewerID)

\* ReassignReviewer's checks without the one on the status
ReassignReviewerErrMergedAllowed(prID, oldReviewerID) ==
    IF prID \notin DOMAIN prs THEN ErrPullRequestNotFound
    ELSE IF IndexOf(prs[prID].AssignedReviewers, oldReviewerID) = 0
         THEN ErrReviewerNotAssigned
    ELSE IF oldReviewerID \notin DOMAIN users THEN ErrUserNotFound
    ELSE IF users[oldReviewerID].TeamName = "" THEN ErrTeamNotFound
    ELSE IF users[oldReviewerID].TeamName \notin DOMAIN teams THEN ErrTeamNotFound
    ELSE IF ReplacementCandidates(prID, oldReviewerID) = {}
         THEN ErrNoReplacementCandidate
    ELSE ErrNil

\* ReassignReviewer's checks with the old reviewer resolved before the
\* search of the reviewer list
ReassignReviewerErrUserFirst(prID, oldReviewerID) ==
    IF prID \notin DOMAIN prs THEN ErrPullRequestNotFound
    ELSE IF prs[prID].Status = StatusMerged THEN ErrPullRequestMerged
    ELSE IF oldReviewerID \notin DOMAIN users THEN ErrUserNotFound
    ELSE IF IndexOf(prs[prID].AssignedReviewers, oldReviewerID) = 0
         THEN ErrReviewerNotAssigned
    ELSE IF users[oldReviewerID].TeamName = "" THEN ErrTeamNotFound
    ELSE IF users[oldReviewerID].TeamName \notin DOMAIN teams THEN ErrTeamNotFound
    ELSE IF ReplacementCandidates(prID, oldReviewerID) = {}
         THEN ErrNoReplacementCandidate
    ELSE ErrNil

\* the error ReassignReviewer returns, or ErrNil
ReassignReviewerErr(prID, oldReviewerID) ==
    IF prID \notin DOMAIN prs THEN ErrPullRequestNotFound
    ELSE IF prs[prID].Status = StatusMerged THEN ErrPullRequestMerged
    ELSE IF IndexOf(prs[prID].AssignedReviewers, oldReviewerID) = 0
         THEN ErrReviewerNotAssigned
    ELSE IF oldReviewerID \notin DOMAIN users THEN ErrUserNotFound
    ELSE IF users[oldReviewerID].TeamName = "" THEN ErrTeamNotFound
    ELSE IF users[oldReviewerID].TeamName \notin DOMAIN teams THEN ErrTeamNotFound
    ELSE IF ReplacementCandidates(prID, oldReviewerID) = {}
         THEN ErrNoReplacementCandidate
    ELSE ErrNil

ReassignReviewer(prID, oldReviewerID) ==
    LET err == ReassignReviewerErr(prID, oldReviewerID)
    IN  IF err # ErrNil
        THEN /\ ret' = Return("ReassignReviewer", prID, oldReviewerID, err, <<>>)
             /\ UNCHANGED <<teams, users, prs>>
        ELSE LET pr    == prs[prID]
                 index == IndexOf(pr.AssignedReviewers, oldReviewerID)
                 candidates == ReplacementCandidates(prID, oldReviewerID)
             IN  \E replacement \in candidates :
                   /\ prs' = [prs EXCEPT ![prID].AssignedReviewers[index] = replacement]
                   /\ ret' = Return("ReassignReviewer", prID, oldReviewerID, ErrNil,
                                    <<[PR |-> clonePullRequest(prs'[prID]),
                                       ReplacedBy |-> replacement]>>)
                   /\ UNCHANGED <<teams, users>>

----------------------------------------------------------------------------
(* The read-only methods.                                                  *)

GetTeam(name) ==
    /\ ret' = IF name \notin DOMAIN teams
              THEN Return("GetTeam", name, NoArg, ErrTeamNotFound, <<>>)
              ELSE Return("GetTeam", name, NoArg, ErrNil,
                          <<buildTeamLocked(users, name, teams[name])>>)
    /\ UNCHANGED <<teams, users, prs>>

GetUser(userID) ==
    /\ ret' = IF userID \notin DOMAIN users
              THEN Return("GetUser", userID, NoArg, ErrUserNotFound, <<>>)
              ELSE Return("GetUser", userID, NoArg, ErrNil, <<cloneUser(users[userID])>>)
    /\ UNCHANGED <<teams, users, prs>>

GetPullRequest(prID) ==
    /\ ret' = IF prID \notin DOMAIN prs
              THEN Return("GetPullRequest", prID, NoArg, ErrPullRequestNotFound, <<>>)
              ELSE Return("GetPullRequest", prID, NoArg, ErrNil,
                          <<clonePullRequest(prs[prID])>>)
    /\ UNCHANGED <<teams, users, prs>>

\* sort.Slice by ID over distinct IDs: the IDs of S in ascending order
SortByPRID(S) == SelectSeq(PROrder, LAMBDA id : id \in S)

\* a listing that leaves merged pull requests out
ReviewedByOpenOnly(userID) ==
    LET ids == SortByPRID({id \in DOMAIN prs :
                             /\ prs[id].Status = StatusOpen
                             /\ \E i \in 1..Len(prs[id].AssignedReviewers) :
                                   prs[id].AssignedReviewers[i] = userID})
    IN  [k \in 1..Len(ids) |-> clonePullRequest(prs[ids[k]])]

\* the result of ListPullRequestsByReviewer for a registered user: a copy of
\* every stored pull request whose reviewer list holds userID, sorted by ID
ReviewedBy(userID) ==
    LET ids == SortByPRID({id \in DOMAIN prs :
                             \E i \in 1..Len(prs[id].AssignedReviewers) :
                                prs[id].AssignedReviewers[i] = userID})
    IN  [k \in 1..Len(ids) |-> clonePullRequest(prs[ids[k]])]

ListPullRequestsByReviewer(userID) ==
    /\ ret' = IF userID \notin DOMAIN users
              THEN Return("ListPullRequestsByReviewer", userID, NoArg, ErrUserNotFound, <<>>)
              ELSE Return("ListPullRequestsByReviewer", userID, NoArg, ErrNil,
                          <<ReviewedBy(userID)>>)
    /\ UNCHANGED <<teams, users, prs>>

----------------------------------------------------------------------------
(* What the pointers of a returned value point at.  A reference is NoRef   *)
(* (nil), Fresh (memory allocated for the caller in this call) or the      *)
(* place <<map, key, part>> of the store's own memory.                     *)

NoRef == <<"nil">>

Fresh == <<"fresh">>

\* the references of the *PullRequest the store keeps under id, holding pr:
\* the struct, the backing array of its reviewer slice, the time MergedAt
\* points at
StoredPullRequestRefs(id, pr) ==
    [Self |-> <<"prs", id, "struct">>,
     AssignedReviewers |-> IF pr.AssignedReviewers = <<>> THEN NoRef
                           ELSE <<"prs", id, "AssignedReviewers">>,
     MergedAt |-> IF pr.MergedAt = NilTime THEN NoRef
                  ELSE <<"prs", id, "MergedAt">>]

\* a clone that copies the struct only, slice header and pointer included
clonePullRequestRefsShallow(refs) == [refs EXCEPT !.Self = Fresh]

\* clonePullRequest: clone := *pr is a new struct; a non-nil slice is copied
\* into a new array, a non-nil MergedAt into a new time
clonePullRequestRefs(refs) ==
    [Self |-> Fresh,
     AssignedReviewers |-> IF refs.AssignedReviewers # NoRef THEN Fresh
                           ELSE refs.AssignedReviewers,
     MergedAt |-> IF refs.MergedAt # NoRef THEN Fresh ELSE refs.MergedAt]

\* the reference of the *User the store keeps under id
StoredUserRefs(id) == [Self |-> <<"users", id, "struct">>]

\* cloneUser: clone := *u is a new struct (User has no pointer fields)
cloneUserRefs(refs) == [Self |-> Fresh]

\* buildTeamLocked: a new Team over a new members slice of TeamMember values
buildTeamLockedRefs == [Self |-> Fresh, Members |-> Fresh]

\* the pull requests the caller holds after the call r, as <<ID, references>>
\* pairs: the one CreatePullRequest, GetPullRequest and MergePullRequest
\* return, the PR of a ReassignResult, the entries of a listing
ReturnedPullRequests(r) ==
    IF r.err # ErrNil THEN <<>>
    ELSE LET values ==
               IF r.op \in {"CreatePullRequest", "GetPullRequest", "MergePullRequest"}
               THEN <<r.out[1]>>
               ELSE IF r.op = "ReassignReviewer" THEN <<r.out[1].PR>>
               ELSE IF r.op = "ListPullRequestsByReviewer" THEN r.out[1]
               ELSE <<>>
         IN  [k \in 1..Len(values) |->
                <<values[k].ID,
                  clonePullRequestRefs(StoredPullRequestRefs(values[k].ID, values[k]))>>]

\* the users the caller holds after the call r
ReturnedUsers(r) ==
    IF r.err = ErrNil /\ r.op \in {"SetUserActive", "GetUser"}
    THEN <<<<r.id, cloneUserRefs(StoredUserRefs(r.id))>>>>
    ELSE <<>>

\* the pull request pr after v is written through the reference part of it
WritePullRequest(pr, part, v) ==
    IF part = "Self" THEN [pr EXCEPT !.Name = v]
    ELSE IF part = "AssignedReviewers" THEN [pr EXCEPT !.AssignedReviewers[1] = v]
    ELSE [pr EXCEPT !.MergedAt = <<v>>]

\* the caller writes v into a pull request the last call returned: the
\* write lands in the store when the reference is one of the store's own
WriteReturnedPullRequest(part, v) ==
    \E k \in 1..Len(ReturnedPullRequests(ret)) :
       LET id  == ReturnedPullRequests(ret)[k][1]
           ref == ReturnedPullRequests(ret)[k][2][part]
       IN  /\ ref # NoRef
           /\ prs' = IF ref = Fresh THEN prs
                     ELSE [prs EXCEPT ![ref[2]] = WritePullRequest(@, part, v)]
           /\ ret' = Return("write", id, part, ErrNil, <<v>>)
           /\ UNCHANGED <<teams, users>>

\* the caller flips IsActive in the user the last call returned
WriteReturnedUser ==
    \E k \in 1..Len(ReturnedUsers(ret)) :
       LET id  == ReturnedUsers(ret)[k][1]
           ref == ReturnedUsers(ret)[k][2].Self
       IN  /\ users' = IF ref = Fresh THEN users
                       ELSE [users EXCEPT ![ref[2]].IsActive = ~@]
           /\ ret' = Return("write", id, "Self", ErrNil, <<>>)
           /\ UNCHANGED <<teams, prs>>

\* the caller writes into the members slice of the team the last call
\* returned; no reference of a Team is the store's
WriteReturnedTeam ==
    /\ ret.err = ErrNil
    /\ ret.op \in {"CreateTeam", "GetTeam"}
    /\ buildTeamLockedRefs.Members = Fresh
    /\ ret' = Return("write", ret.id, "Members", ErrNil, <<>>)
    /\ UNCHANGED <<teams, users, prs>>

----------------------------------------------------------------------------
(* Calls that run at the same time.  Each goroutine's call goes through    *)
(* s.mu.Lock() or s.mu.RLock(), the first map lookup of the method, the    *)
(* rest of its body, and the deferred unlock; pc[g] is where it is:        *)
(* "idle", "lock", "check", "commit" or "unlock".                          *)

\* the methods that only read the maps, and the methods that write them
ReadOnlyOps == {"GetTeam", "GetUser", "GetPullRequest", "ListPullRequestsByReviewer"}

MutatingOps ==
    {"CreateTeam", "SetUserActive", "CreatePullRequest", "MergePullRequest",
     "ReassignReviewer"}

\* the operations that draw from s.rnd
RandomOps == {"CreatePullRequest", "ReassignReviewer"}

\* every method under the read lock
LockKindShared(op) == "RLock"

\* the lock a method takes on entry
LockKind(op) == IF op \in ReadOnlyOps THEN "RLock" ELSE "Lock"

\* a Lock that does not wait for the writer to leave
CanLockBesideWriter(m) == m.readers = 0

\* sync.RWMutex: Lock waits until no writer and no reader holds the mutex,
\* RLock until no writer does
CanLock(m) == ~m.writer /\ m.readers = 0

CanRLock(m) == ~m.writer

\* what the first map lookup of the method finds: ok, or exists
FirstLookup(op, id) ==
    IF op \in {"CreateTeam", "GetTeam"} THEN id \in DOMAIN teams
    ELSE IF op \in {"SetUserActive", "GetUser", "ListPullRequestsByReviewer"}
         THEN id \in DOMAIN users
    ELSE id \in DOMAIN prs

\* the error of a method whose first lookup finds nothing
NotFoundErr(op) ==
    IF op = "GetTeam" THEN ErrTeamNotFound
    ELSE IF op \in {"SetUserActive", "GetUser", "ListPullRequestsByReviewer"}
         THEN ErrUserNotFound
    ELSE ErrPullRequestNotFound

\* the goroutine g calls op(id, arg); pre tells whether the call is one
\* that would succeed alone (the ID is new, the author has a team)
Start(g, op, id, arg, pre) ==
    /\ pc[g] = "idle"
    /\ pc' = [pc EXCEPT ![g] = "lock"]
    /\ calls' = [calls EXCEPT ![g] = [op |-> op, id |-> id, arg |-> arg,
                                      pre |-> pre, seen |-> FALSE,
                                      err |-> "", out |-> <<>>]]
    /\ UNCHANGED <<teams, users, prs, ret, mu>>

\* s.mu.Lock() or s.mu.RLock() returns
Acquire(g) ==
    /\ pc[g] = "lock"
    /\ pc' = [pc EXCEPT ![g] = "check"]
    /\ IF LockKind(calls[g].op) = "Lock"
       THEN CanLock(mu) /\ mu' = [mu EXCEPT !.writer = TRUE]
       ELSE CanRLock(mu) /\ mu' = [mu EXCEPT !.readers = @ + 1]
    /\ UNCHANGED <<teams, users, prs, ret, calls>>

\* the first map lookup
Check(g) ==
    /\ pc[g] = "check"
    /\ pc' = [pc EXCEPT ![g] = "commit"]
    /\ calls' = [calls EXCEPT ![g].seen = FirstLookup(calls[g].op, calls[g].id)]
    /\ UNCHANGED <<teams, users, prs, ret, mu>>

\* the method returns err without a write
Fail(op, id, arg, err) ==
    /\ ret' = Return(op, id, arg, err, <<>>)
    /\ UNCHANGED <<teams, users, prs>>

\* CreateTeam after its lookup found no team: register the name, upsert
\* the members, build the result
CreateTeamStore(name, members) ==
    LET st0 == [teams |-> (name :> {}) @@ teams, users |-> users]
        st1 == CreateTeamLoop(st0, name, members, 1)
    IN  /\ teams' = st1.teams
        /\ users' = st1.users
        /\ ret' = Return("CreateTeam", name, members, ErrNil,
                         <<buildTeamLocked(st1.users, name, st1.teams[name])>>)
        /\ UNCHANGED prs

\* CreatePullRequest after its lookup found no pull request: resolve the
\* author and the team, pick the reviewers, store the pull request
CreatePullRequestStore(id, name, authorID, now) ==
    IF authorID \notin DOMAIN users
    THEN Fail("CreatePullRequest", id, authorID, ErrUserNotFound)
    ELSE IF users[authorID].TeamName = "" \/ users[authorID].TeamName \notin DOMAIN teams
    THEN Fail("CreatePullRequest", id, authorID, ErrTeamNotFound)
    ELSE \E reviewers \in pickReviewersLocked(teams[users[authorID].TeamName], authorID) :
           LET pr == [ID |-> id, Name |-> name, AuthorID |-> authorID,
                      Status |-> StatusOpen, AssignedReviewers |-> reviewers,
                      CreatedAt |-> now, MergedAt |-> NilTime]
           IN  /\ prs' = (id :> pr) @@ prs
               /\ ret' = Return("CreatePullRequest", id, authorID, ErrNil,
                                <<clonePullRequest(pr)>>)
               /\ UNCHANGED <<teams, users>>

\* the rest of the body of the call c, after its first lookup
Body(c, now) ==
    IF c.op = "CreateTeam"
    THEN IF c.seen THEN Fail(c.op, c.id, NoArg, ErrTeamExists)
         ELSE CreateTeamStore(c.id, c.arg)
    ELSE IF c.op = "CreatePullRequest"
    THEN IF c.seen THEN Fail(c.op, c.id, c.arg, ErrPullRequestExists)
         ELSE CreatePullRequestStore(c.id, "fix", c.arg, now)
    ELSE IF ~c.seen THEN Fail(c.op, c.id, c.arg, NotFoundErr(c.op))
    ELSE IF c.op = "SetUserActive" THEN SetUserActive(c.id, c.arg)
    ELSE IF c.op = "MergePullRequest" THEN MergePullRequest(c.id, now)
    ELSE IF c.op = "ReassignReviewer" THEN ReassignReviewer(c.id, c.arg)
    ELSE IF c.op = "GetTeam" THEN GetTeam(c.id)
    ELSE IF c.op = "GetUser" THEN GetUser(c.id)
    ELSE IF c.op = "GetPullRequest" THEN GetPullRequest(c.id)
    ELSE ListPullRequestsByReviewer(c.id)

\* the body runs to its return statement
Commit(g, now) ==
    /\ pc[g] = "commit"
    /\ pc' = [pc EXCEPT ![g] = "unlock"]
    /\ Body(calls[g], now)
    /\ calls' = [calls EXCEPT ![g].err = ret'.err, ![g].out = ret'.out]
    /\ UNCHANGED mu

\* a return that gives the lock back on the success path only
ReleaseOnSuccessOnly(g) ==
    /\ pc[g] = "unlock"
    /\ pc' = [pc EXCEPT ![g] = "idle"]
    /\ mu' = IF calls[g].err # ErrNil THEN mu
             ELSE IF LockKind(calls[g].op) = "Lock"
             THEN [mu EXCEPT !.writer = FALSE]
             ELSE [mu EXCEPT !.readers = @ - 1]
    /\ UNCHANGED <<teams, users, prs, ret, calls>>

\* the deferred s.mu.Unlock() or s.mu.RUnlock()
Release(g) ==
    /\ pc[g] = "unlock"
    /\ pc' = [pc EXCEPT ![g] = "idle"]
    /\ mu' = IF LockKind(calls[g].op) = "Lock"
             THEN [mu EXCEPT !.writer = FALSE]
             ELSE [mu EXCEPT !.readers = @ - 1]
    /\ UNCHANGED <<teams, users, prs, ret, calls>>

----------------------------------------------------------------------------
(* The store after New() and the calls callers can make.                   *)

Init ==
    /\ teams = <<>>
    /\ users = <<>>
    /\ prs = <<>>
    /\ ret = Return("New", "", NoArg, ErrNil, <<>>)
    /\ mu = [writer |-> FALSE, readers |-> 0]
    /\ pc = [g \in Goroutines |-> "idle"]
    /\ calls = [g \in Goroutines |-> NoCall]

\* a call made while no other call is running takes and gives back the
\* lock within its step
Alone == UNCHANGED <<mu, pc, calls>>

\* the calls of one step: any store operation, its arguments drawn from the
\* given sets, its random choices and clock readings from all outcomes
Call(names, memberSeqs, toggled, authors, reviewers, prIDs, times) ==
    \/ \E name \in names, members \in memberSeqs :
          CreateTeam(name, members) /\ Alone
    \/ \E userID \in toggled, isActive \in BOOLEAN :
          SetUserActive(userID, isActive) /\ Alone
    \/ \E id \in prIDs, name \in PRNames, authorID \in authors, now \in times :
          CreatePullRequest(id, name, authorID, now) /\ Alone
    \/ \E prID \in prIDs, now \in times : MergePullRequest(prID, now) /\ Alone
    \/ \E prID \in prIDs, oldReviewerID \in reviewers :
          ReassignReviewer(prID, oldReviewerID) /\ Alone

\* members slices listing the users of S once each, in ascending order, all
\* active, with the username n
RosterSeq(S, n) ==
    LET ids == SortByUserID(S)
    IN  [i \in 1..Len(ids) |-> [UserID |-> ids[i], Username |-> n, IsActive |-> TRUE]]

RosterSeqs == {RosterSeq(S, "n1") : S \in SUBSET UserIDs}

\* any members slices of at most MaxMembers entries over two users and the
\* empty user ID: repeated IDs, empty IDs, and two profiles per ID (active
\* "n1", inactive "n2")
TeamSeqs ==
    SeqsUpTo({m \in MemberInputs({"u1", "u2", ""}) : m.IsActive = (m.Username = "n1")},
             MaxMembers)

(* Teams and users: CreateTeam, SetUserActive and GetTeam with any members *)
(* slice, the empty team name among the names.  The other operations leave *)
(* teams and users as they are.                                            *)
NextTeams ==
    \/ \E name \in TeamNamesWithEmpty, members \in TeamSeqs :
          CreateTeam(name, members) /\ Alone
    \/ \E userID \in {"u1", "u2", "u3"}, isActive \in BOOLEAN :
          SetUserActive(userID, isActive) /\ Alone
    \/ \E name \in TeamNamesWithEmpty : GetTeam(name) /\ Alone

SpecTeams == Init /\ [][NextTeams]_vars

(* Review of one pull request authored by u1: two teams of up to four      *)
(* users, users moving between them, activity toggled, merge and           *)
(* reassignment at any point.                                              *)
NextReview ==
    Call(TeamNames, RosterSeqs, {"u3", "u4"}, {"u1"}, UserIDs, {"p1"}, Times)

SpecReview == Init /\ [][NextReview]_vars

(* Two pull requests authored by u1 in one team of up to four users.       *)
NextFrame ==
    Call({"a"}, RosterSeqs, {"u4"}, {"u1"}, UserIDs, PRIDs, Times)

SpecFrame == Init /\ [][NextFrame]_vars

(* Listings: the calls of SpecFrame at one instant, and                    *)
(* ListPullRequestsByReviewer for every user ID.                           *)
NextList ==
    \/ Call({"a"}, RosterSeqs, {"u4"}, {"u1"}, UserIDs, PRIDs, {0})
    \/ \E userID \in UserIDs : ListPullRequestsByReviewer(userID) /\ Alone

SpecList == Init /\ [][NextList]_vars

\* the rosters over the users of ids
RosterSeqsOver(ids) == {RosterSeq(S, "n1") : S \in SUBSET ids}

(* The empty team name with pull requests: teams "" and "a" over three     *)
(* users, one pull request at one instant, authors u1 and the never        *)
(* registered u4.                                                          *)
NextNameless ==
    Call(TeamNamesWithEmpty, RosterSeqsOver({"u1", "u2", "u3"}), {"u3"},
         {"u1", "u4"}, {"u1", "u2", "u3"}, {"p1"}, {0})

SpecNameless == Init /\ [][NextNameless]_vars

\* the read-only calls of one step, their arguments drawn from the given sets
Read(names, userIDs, prIDs) ==
    \/ \E name \in names : GetTeam(name) /\ Alone
    \/ \E userID \in userIDs : GetUser(userID) /\ Alone
    \/ \E prID \in prIDs : GetPullRequest(prID) /\ Alone
    \/ \E userID \in userIDs : ListPullRequestsByReviewer(userID) /\ Alone

(* Every operation: the calls of SpecNameless and the read-only calls.     *)
NextStore ==
    \/ NextNameless
    \/ Read(TeamNamesWithEmpty, {"u2", "u4"}, {"p1"})

SpecStore == Init /\ [][NextStore]_vars

(* Returned values in the callers' hands: one team of three users, one     *)
(* pull request, every operation, and the callers' writes into what the    *)
(* last call returned.                                                     *)
NextAlias ==
    \/ Call({"a"}, RosterSeqsOver({"u1", "u2", "u3"}), {"u2"}, {"u1"}, {"u2", "u3"},
            {"p1"}, {0})
    \/ Read({"a"}, {"u2"}, {"p1"})
    \/ \E v \in PRNames \cup {"x"} : WriteReturnedPullRequest("Self", v) /\ Alone
    \/ \E v \in UserIDs : WriteReturnedPullRequest("AssignedReviewers", v) /\ Alone
    \/ \E v \in Times : WriteReturnedPullRequest("MergedAt", v) /\ Alone
    \/ WriteReturnedUser /\ Alone
    \/ WriteReturnedTeam /\ Alone

SpecAlias == Init /\ [][NextAlias]_vars

\* the author of a CreatePullRequest is registered in a team
ValidAuthor(authorID) ==
    /\ authorID \in DOMAIN users
    /\ users[authorID].TeamName \in DOMAIN teams \ {""}

(* Two goroutines calling the store at the same time: one team name, two   *)
(* users, one pull request, every operation.                               *)
NextLock ==
    \E g \in Goroutines :
       \/ \E members \in {RosterSeq({"u1"}, "n1"), RosterSeq({"u1", "u2"}, "n1")} :
             Start(g, "CreateTeam", "a", members, "a" \notin DOMAIN teams)
       \/ \E isActive \in BOOLEAN : Start(g, "SetUserActive", "u2", isActive, TRUE)
       \/ Start(g, "CreatePullRequest", "p1", "u1",
                "p1" \notin DOMAIN prs /\ ValidAuthor("u1"))
       \/ Start(g, "MergePullRequest", "p1", NoArg, TRUE)
       \/ Start(g, "ReassignReviewer", "p1", "u2", TRUE)
       \/ Start(g, "GetTeam", "a", NoArg, TRUE)
       \/ Start(g, "GetUser", "u2", NoArg, TRUE)
       \/ Start(g, "GetPullRequest", "p1", NoArg, TRUE)
       \/ Start(g, "ListPullRequestsByReviewer", "u2", NoArg, TRUE)
       \/ Acquire(g)
       \/ Check(g)
       \/ \E now \in {0} : Commit(g, now)
       \/ Release(g)

SpecLock == Init /\ [][NextLock]_vars

(* Two goroutines that go on calling CreateTeam, GetTeam, ReassignReviewer *)
(* and ListPullRequestsByReviewer for as long as they like.  A goroutine   *)
(* inside a method keeps running (the body has no loop without a bound and *)
(* no I/O), and the lock is fair: a goroutine that can take the mutex      *)
(* again and again does take it.                                           *)
NextLive ==
    \E g \in Goroutines :
       \/ Start(g, "CreateTeam", "a", RosterSeq({"u1", "u2"}, "n1"),
                "a" \notin DOMAIN teams)
       \/ Start(g, "GetTeam", "a", NoArg, TRUE)
       \/ Start(g, "ReassignReviewer", "p1", "u2", TRUE)
       \/ Start(g, "ListPullRequestsByReviewer", "u2", NoArg, TRUE)
       \/ Acquire(g)
       \/ Check(g)
       \/ \E now \in {0} : Commit(g, now)
       \/ Release(g)

Fairness ==
    \A g \in Goroutines :
       /\ SF_pc(Acquire(g))
       /\ WF_pc(Check(g))
       /\ WF_pc(\E now \in {0} : Commit(g, now))
       /\ WF_pc(Release(g))

SpecLive == Init /\ [][NextLive]_vars /\ Fairness

(* Settled teams: every user ID is supplied to at most one successful      *)
(* CreateTeam call, so no user changes team; the other calls are free.     *)
NextSettled ==
    \/ \E name \in TeamNames, members \in RosterSeqs :
          /\ name \notin DOMAIN teams
             => \A i \in 1..Len(members) : members[i].UserID \notin DOMAIN users
          /\ CreateTeam(name, members)
          /\ Alone
    \/ \E userID \in {"u2", "u3"}, isActive \in BOOLEAN :
          SetUserActive(userID, isActive) /\ Alone
    \/ \E id \in {"p1"}, name \in PRNames, authorID \in {"u1", "u4"} :
          CreatePullRequest(id, name, authorID, 0) /\ Alone
    \/ \E prID \in {"p1"} : MergePullRequest(prID, 0) /\ Alone
    \/ \E prID \in {"p1"}, oldReviewerID \in UserIDs :
          ReassignReviewer(prID, oldReviewerID) /\ Alone

SpecSettled == Init /\ [][NextSettled]_vars

----------------------------------------------------------------------------
(* Properties.                                                             *)

\* the reviewer list of the stored pull request id
Reviewers(id) == prs[id].AssignedReviewers

\* the last call was op and returned no error
Succeeded(op) == ret.op = op /\ ret.err = ErrNil

\* C1: no pull request's AssignedReviewers contains its own author, in every
\* reachable state.
AuthorNeverReviewer ==
    \A id \in DOMAIN prs : prs[id].AuthorID \notin Range(Reviewers(id))

\* a reassignment has just drawn a replacement from the team the active
\* author belongs to, for a pull request with two reviewers
AuthorNeverReviewerWitness ==
    /\ Succeeded("ReassignReviewer")
    /\ Len(Reviewers(ret.id)) = 2
    /\ users[prs[ret.id].AuthorID].IsActive
    /\ users[ret.out[1].ReplacedBy].TeamName = users[prs[ret.id].AuthorID].TeamName

\* C2: no pull request's AssignedReviewers holds the same user ID twice, in
\* every reachable state.
NoDuplicateReviewers ==
    \A id \in DOMAIN prs :
        \A i, j \in 1..Len(Reviewers(id)) :
            i # j => Reviewers(id)[i] # Reviewers(id)[j]

\* a reassignment has just succeeded on a two-reviewer list whose other
\* reviewer sits in the team the replacement was drawn from, after a move
NoDuplicateReviewersWitness ==
    /\ Succeeded("ReassignReviewer")
    /\ Len(Reviewers(ret.id)) = 2
    /\ \E r \in Range(Reviewers(ret.id)) :
          /\ r # ret.out[1].ReplacedBy
          /\ users[r].TeamName = users[ret.out[1].ReplacedBy].TeamName
          /\ users[r].TeamName # users[prs[ret.id].AuthorID].TeamName

\* C3: a pull request's status never leaves MERGED and a set MergedAt never
\* changes, over every step; MergePullRequest on a pull request that is
\* already MERGED returns no error, status MERGED and the MergedAt it had.
MergeOnceForAll ==
    [][\A id \in DOMAIN prs :
          /\ id \in DOMAIN prs'
          /\ prs[id].Status = StatusMerged => prs'[id].Status = StatusMerged
          /\ prs[id].MergedAt # NilTime => prs'[id].MergedAt = prs[id].MergedAt
          /\ (ret'.op = "MergePullRequest" /\ ret'.id = id
                /\ prs[id].Status = StatusMerged)
             => /\ ret'.err = ErrNil
                /\ ret'.out[1].Status = StatusMerged
                /\ ret'.out[1].MergedAt = prs[id].MergedAt]_vars

\* MergePullRequest has just returned a pull request merged at another time
\* than the one this call read from the clock: a repeated merge
MergeOnceForAllWitness ==
    /\ Succeeded("MergePullRequest")
    /\ ret.out[1].Status = StatusMerged
    /\ ret.out[1].MergedAt # <<ret.arg>>
    /\ prs[ret.id].MergedAt = ret.out[1].MergedAt

\* C4: ReassignReviewer on a MERGED pull request fails with
\* ErrPullRequestMerged whatever the old reviewer, and changes no pull
\* request; over every step the reviewer list of a MERGED pull request stays
\* as it is.
MergedReviewersFrozen ==
    [][/\ (ret'.op = "ReassignReviewer" /\ ret'.id \in DOMAIN prs
             /\ prs[ret'.id].Status = StatusMerged)
          => (ret'.err = ErrPullRequestMerged /\ prs' = prs)
       /\ \A id \in DOMAIN prs :
             prs[id].Status = StatusMerged
             => /\ id \in DOMAIN prs'
                /\ prs'[id].AssignedReviewers = prs[id].AssignedReviewers]_vars

\* ReassignReviewer has just been refused on a merged pull request for an
\* assigned reviewer whose team holds an eligible replacement
MergedReviewersFrozenWitness ==
    /\ ret.op = "ReassignReviewer"
    /\ ret.err = ErrPullRequestMerged
    /\ ret.arg \in Range(Reviewers(ret.id))
    /\ users[ret.arg].TeamName \in DOMAIN teams
    /\ \E r \in teams[users[ret.arg].TeamName] :
          /\ r \notin Range(Reviewers(ret.id)) \cup {prs[ret.id].AuthorID}
          /\ users[r].IsActive

\* C5: the replacement a successful ReassignReviewer(prID, old) returns is
\* in the member set of old's team and has that team as its own, is not the
\* author, not old, not in the reviewer list as it was, and is active.
ReplacementEligible ==
    [][(ret'.op = "ReassignReviewer" /\ ret'.err = ErrNil)
       => LET r   == ret'.out[1].ReplacedBy
              old == ret'.arg
              pr  == prs[ret'.id]
          IN  /\ r \in teams[users[old].TeamName]
              /\ users[r].TeamName = users[old].TeamName
              /\ r # pr.AuthorID
              /\ r # old
              /\ r \notin Range(pr.AssignedReviewers)
              /\ users[r].IsActive]_vars

\* a reassignment has just succeeded while old's team held an inactive
\* member, the author and the other reviewer beside the replacement
ReplacementEligibleWitness ==
    /\ Succeeded("ReassignReviewer")
    /\ Len(Reviewers(ret.id)) = 2
    /\ LET team == teams[users[ret.arg].TeamName]
       IN  /\ prs[ret.id].AuthorID \in team
           /\ \E u \in team : ~users[u].IsActive
           /\ Range(Reviewers(ret.id)) \subseteq team

\* C6: a successful ReassignReviewer(prID, old) puts the replacement at the
\* position old had in prID's reviewer list and changes nothing else: not
\* the rest of that pull request, no other pull request, no team, no user.
ReassignFrame ==
    [][(ret'.op = "ReassignReviewer" /\ ret'.err = ErrNil)
       => LET id  == ret'.id
              old == ret'.arg
              r   == ret'.out[1].ReplacedBy
          IN  /\ teams' = teams
              /\ users' = users
              /\ DOMAIN prs' = DOMAIN prs
              /\ \A other \in DOMAIN prs \ {id} : prs'[other] = prs[other]
              /\ Len(prs'[id].AssignedReviewers) = Len(prs[id].AssignedReviewers)
              /\ \A i \in 1..Len(prs[id].AssignedReviewers) :
                    prs'[id].AssignedReviewers[i] =
                       IF prs[id].AssignedReviewers[i] = old THEN r
                       ELSE prs[id].AssignedReviewers[i]
              /\ prs'[id] = [prs[id] EXCEPT !.AssignedReviewers = prs'[id].AssignedReviewers]
              /\ ret'.out[1].PR = prs'[id]]_vars

\* a reassignment has just replaced the second of two reviewers while
\* another pull request with reviewers of its own is stored
ReassignFrameWitness ==
    /\ Succeeded("ReassignReviewer")
    /\ Len(Reviewers(ret.id)) = 2
    /\ Reviewers(ret.id)[2] = ret.out[1].ReplacedBy
    /\ \E other \in DOMAIN prs \ {ret.id} : Len(Reviewers(other)) = 2

\* C7: a CreatePullRequest with a free ID and an author whose team exists
\* returns no error and stores an OPEN pull request with min(2, n) pairwise
\* distinct reviewers out of the n active members of the author's team
\* other than the author; with n = 0 the list is empty.
ReviewersAssigned ==
    [][(/\ ret'.op = "CreatePullRequest"
        /\ ret'.id \notin DOMAIN prs
        /\ ret'.arg \in DOMAIN users
        /\ users[ret'.arg].TeamName \in DOMAIN teams \ {""})
       => LET pool == {u \in teams[users[ret'.arg].TeamName] \ {ret'.arg} :
                          users[u].IsActive}
              n    == Cardinality(pool)
              list == prs'[ret'.id].AssignedReviewers
          IN  /\ ret'.err = ErrNil
              /\ ret'.id \in DOMAIN prs'
              /\ prs'[ret'.id].Status = StatusOpen
              /\ prs'[ret'.id].AuthorID = ret'.arg
              /\ Len(list) = (IF n < 2 THEN n ELSE 2)
              /\ Range(list) \subseteq pool
              /\ Cardinality(Range(list)) = Len(list)
              /\ ret'.out[1] = prs'[ret'.id]]_vars

\* a pull request has just been created by an author with three active
\* teammates and one stored user outside the pool
ReviewersAssignedWitness ==
    /\ Succeeded("CreatePullRequest")
    /\ Len(Reviewers(ret.id)) = 2
    /\ Cardinality({u \in teams[users[ret.arg].TeamName] \ {ret.arg} :
                       users[u].IsActive}) = 3

\* C8: users and team member sets agree in both directions, in every
\* reachable state: a user with a non-empty TeamName is in the member set of
\* that existing team, and every ID in a member set is a registered user
\* whose TeamName is that team's name.
TeamsConsistent ==
    /\ \A u \in DOMAIN users :
          users[u].TeamName # ""
          => /\ users[u].TeamName \in DOMAIN teams
             /\ u \in teams[users[u].TeamName]
    /\ \A t \in DOMAIN teams : \A u \in teams[t] :
          u \in DOMAIN users /\ users[u].TeamName = t

\* C9: every user ID is in the member set of at most one team, in every
\* reachable state, and a user listed by a successful CreateTeam is then in
\* the new team's member set and in no other.
AtMostOneTeam ==
    /\ \A u \in UserIDs : Cardinality({t \in DOMAIN teams : u \in teams[t]}) <= 1
    /\ Succeeded("CreateTeam")
       => \A i \in 1..Len(ret.out[1].Members) :
             \A t \in DOMAIN teams :
                ret.out[1].Members[i].UserID \in teams[t] <=> t = ret.id

\* C10: CreateTeam with a registered name returns ErrTeamExists and leaves
\* every team, user and pull request as it was.
TeamExistsChangesNothing ==
    [][(ret'.op = "CreateTeam" /\ ret'.id \in DOMAIN teams)
       => /\ ret'.err = ErrTeamExists
          /\ teams' = teams
          /\ users' = users
          /\ prs' = prs]_vars

\* CreateTeam has just been refused for a name whose team has members,
\* while a registered user is outside that team
TeamExistsChangesNothingWitness ==
    /\ ret.op = "CreateTeam"
    /\ ret.err = ErrTeamExists
    /\ teams[ret.id] # {}
    /\ \E u \in DOMAIN users : u \notin teams[ret.id]

\* the position of a user ID in the order sort.Slice compares IDs by
UserRank(id) == CHOOSE i \in 1..Len(UserOrder) : UserOrder[i] = id

\* the index of the last entry of members whose UserID is id
LastEntry(members, id) ==
    CHOOSE i \in 1..Len(members) :
       /\ members[i].UserID = id
       /\ \A j \in (i + 1)..Len(members) : members[j].UserID # id

\* C11: a successful CreateTeam(name, members) returns a team listing exactly
\* the distinct non-empty user IDs of members, in ascending order of user ID,
\* each with the display name and active flag supplied for it (of the last
\* entry when the ID is repeated), and GetTeam(name) right after it returns
\* the same team.
CreatedTeamListsMembers ==
    [][/\ (ret'.op = "CreateTeam" /\ ret'.err = ErrNil)
          => LET members == ret'.arg
                 listed  == ret'.out[1].Members
             IN  /\ ret'.out[1].Name = ret'.id
                 /\ {listed[k].UserID : k \in 1..Len(listed)}
                      = {members[i].UserID : i \in 1..Len(members)} \ {""}
                 /\ \A k \in 1..(Len(listed) - 1) :
                       UserRank(listed[k].UserID) < UserRank(listed[k + 1].UserID)
                 /\ \A k \in 1..Len(listed) :
                       LET m == members[LastEntry(members, listed[k].UserID)]
                       IN  /\ listed[k].Username = m.Username
                           /\ listed[k].IsActive = m.IsActive
       /\ (/\ Succeeded("CreateTeam")
           /\ ret'.op = "GetTeam"
           /\ ret'.id = ret.id)
          => /\ ret'.err = ErrNil
             /\ ret'.out = ret.out]_vars

\* CreateTeam has just created a team from two members supplied in
\* descending order of user ID
CreatedTeamListsMembersWitness ==
    /\ Succeeded("CreateTeam")
    /\ Len(ret.arg) = 2
    /\ ret.arg[1].UserID = "u2"
    /\ ret.arg[2].UserID = "u1"
    /\ Len(ret.out[1].Members) = 2

\* the position of a pull request ID in the order sort.Slice compares IDs by
PRRank(id) == CHOOSE i \in 1..Len(PROrder) : PROrder[i] = id

\* the IDs of the pull requests of a listing
ListedIDs(list) == {list[k].ID : k \in 1..Len(list)}

\* C12: ListPullRequestsByReviewer(u) returns ErrUserNotFound when u is not
\* registered; otherwise it returns, without error, the stored pull requests
\* (OPEN or MERGED) whose reviewer list holds u, each once, in ascending order
\* of ID (none: the empty sequence); right after a successful
\* ReassignReviewer the pull request is not listed for the replaced reviewer
\* and is listed for the replacement.
ListedByReviewer ==
    [][/\ (ret'.op = "ListPullRequestsByReviewer" /\ ret'.id \notin DOMAIN users)
          => ret'.err = ErrUserNotFound
       /\ (ret'.op = "ListPullRequestsByReviewer" /\ ret'.id \in DOMAIN users)
          => /\ ret'.err = ErrNil
             /\ LET list == ret'.out[1]
                IN  /\ ListedIDs(list)
                         = {id \in DOMAIN prs : ret'.id \in Range(Reviewers(id))}
                    /\ \A k \in 1..(Len(list) - 1) :
                          PRRank(list[k].ID) < PRRank(list[k + 1].ID)
                    /\ \A k \in 1..Len(list) : list[k] = prs[list[k].ID]
       /\ (Succeeded("ReassignReviewer") /\ ret'.op = "ListPullRequestsByReviewer")
          => /\ ret'.id = ret.arg
                => ret'.err = ErrNil /\ ret.id \notin ListedIDs(ret'.out[1])
             /\ ret'.id = ret.out[1].ReplacedBy
                => ret'.err = ErrNil /\ ret.id \in ListedIDs(ret'.out[1])]_vars

\* a user has just been listed as reviewer of two pull requests, one OPEN and
\* one MERGED, while another user is registered and reviews nothing
ListedByReviewerWitness ==
    /\ Succeeded("ListPullRequestsByReviewer")
    /\ Len(ret.out[1]) = 2
    /\ ret.out[1][1].Status # ret.out[1][2].Status
    /\ \E u \in DOMAIN users : \A id \in DOMAIN prs : u \notin Range(Reviewers(id))

\* the active members of the team the user old belongs to, other than old,
\* the author and the current reviewers of the pull request id
EligibleTeammates(id, old) ==
    IF old \in DOMAIN users /\ users[old].TeamName \in DOMAIN teams
    THEN {u \in teams[users[old].TeamName] :
             /\ u \notin {old, prs[id].AuthorID} \cup Range(Reviewers(id))
             /\ u \in DOMAIN users
             /\ users[u].IsActive}
    ELSE {}

\* C13: ReassignReviewer on an OPEN pull request for an assigned reviewer
\* returns ErrNoReplacementCandidate exactly when the old reviewer's team has
\* no active member other than the old reviewer, the author and the other
\* reviewers, and then leaves the pull requests as they were.
NoCandidateExactly ==
    [][(/\ ret'.op = "ReassignReviewer"
        /\ ret'.id \in DOMAIN prs
        /\ prs[ret'.id].Status = StatusOpen
        /\ ret'.arg \in Range(Reviewers(ret'.id)))
       => /\ ret'.err = ErrNoReplacementCandidate
                <=> EligibleTeammates(ret'.id, ret'.arg) = {}
          /\ ret'.err = ErrNoReplacementCandidate => prs' = prs]_vars

\* C14: SetUserActive(u, flag) on a registered user changes u's IsActive to
\* flag and nothing else: every pull request with its reviewer list, every
\* member set, u's other fields and every other user stay as they were; on
\* an unregistered user it returns ErrUserNotFound and changes nothing.
SetUserActiveFrame ==
    [][ret'.op = "SetUserActive"
       => /\ prs' = prs
          /\ teams' = teams
          /\ IF ret'.id \in DOMAIN users
             THEN /\ ret'.err = ErrNil
                  /\ users' = [users EXCEPT ![ret'.id].IsActive = ret'.arg]
                  /\ ret'.out[1] = users'[ret'.id]
             ELSE /\ ret'.err = ErrUserNotFound
                  /\ users' = users]_vars

\* a user has just been deactivated while on the reviewer list of a pull
\* request
SetUserActiveFrameWitness ==
    /\ Succeeded("SetUserActive")
    /\ ret.arg = FALSE
    /\ ~users[ret.id].IsActive
    /\ \E id \in DOMAIN prs : ret.id \in Range(Reviewers(id))

\* C17: CreatePullRequest returns ErrPullRequestExists when the ID is taken,
\* whoever the author is; otherwise ErrUserNotFound when the author is not
\* registered; otherwise ErrTeamNotFound when the author's TeamName is empty
\* or names no team; and a failing call leaves every pull request as it was.
CreatePullRequestFailureOrder ==
    [][ret'.op = "CreatePullRequest"
       => LET id     == ret'.id
              author == ret'.arg
          IN  /\ id \in DOMAIN prs => ret'.err = ErrPullRequestExists
              /\ (id \notin DOMAIN prs /\ author \notin DOMAIN users)
                 => ret'.err = ErrUserNotFound
              /\ (/\ id \notin DOMAIN prs
                  /\ author \in DOMAIN users
                  /\ \/ users[author].TeamName = ""
                     \/ users[author].TeamName \notin DOMAIN teams)
                 => ret'.err = ErrTeamNotFound
              /\ ret'.err # ErrNil => prs' = prs]_vars

\* CreatePullRequest has just been refused for a taken ID while its author
\* is not registered, and another registered user has an empty TeamName
CreatePullRequestFailureOrderWitness ==
    /\ ret.op = "CreatePullRequest"
    /\ ret.err = ErrPullRequestExists
    /\ ret.arg \notin DOMAIN users
    /\ \E u \in DOMAIN users : users[u].TeamName = ""

\* C18: ReassignReviewer returns ErrPullRequestNotFound for an unknown pull
\* request, else ErrPullRequestMerged for a merged one, else
\* ErrReviewerNotAssigned when oldReviewerID is not in the reviewer list,
\* registered or not; reassigning again the reviewer a successful
\* ReassignReviewer has just replaced returns ErrReviewerNotAssigned.
ReassignFailureOrder ==
    [][ret'.op = "ReassignReviewer"
       => LET id  == ret'.id
              old == ret'.arg
          IN  /\ id \notin DOMAIN prs => ret'.err = ErrPullRequestNotFound
              /\ (id \in DOMAIN prs /\ prs[id].Status = StatusMerged)
                 => ret'.err = ErrPullRequestMerged
              /\ (/\ id \in DOMAIN prs
                  /\ prs[id].Status = StatusOpen
                  /\ old \notin Range(Reviewers(id)))
                 => ret'.err = ErrReviewerNotAssigned
              /\ (Succeeded("ReassignReviewer") /\ id = ret.id /\ old = ret.arg)
                 => ret'.err = ErrReviewerNotAssigned]_vars

\* ReassignReviewer has just answered ErrReviewerNotAssigned for an ID that
\* is not a registered user, on an OPEN pull request that has reviewers
ReassignFailureOrderWitness ==
    /\ ret.op = "ReassignReviewer"
    /\ ret.err = ErrReviewerNotAssigned
    /\ ret.arg \notin DOMAIN users
    /\ prs[ret.id].Status = StatusOpen
    /\ Reviewers(ret.id) # <<>>

\* C19: a call that returns an error leaves every team, user and pull
\* request exactly as it was.
ErrorChangesNothing ==
    [][ret'.err # ErrNil
       => /\ teams' = teams
          /\ users' = users
          /\ prs' = prs]_vars

\* ReassignReviewer has just found no replacement for an assigned reviewer
\* of an OPEN pull request, its last check
ErrorChangesNothingWitness ==
    /\ ret.op = "ReassignReviewer"
    /\ ret.err = ErrNoReplacementCandidate
    /\ ret.arg \in Range(Reviewers(ret.id))
    /\ \E u \in DOMAIN users : ~users[u].IsActive

\* C16: whatever a caller writes into a value a store operation returned
\* (a pull request with its reviewer list and MergedAt, a user, a team), the
\* teams, users and pull requests of the store stay as they were.
ReturnedValuesIndependent ==
    [][ret'.op = "write"
       => /\ teams' = teams
          /\ users' = users
          /\ prs' = prs]_vars

\* a caller has just overwritten the first reviewer of a returned pull
\* request with an ID other than the one the store holds there
ReturnedValuesIndependentWitness ==
    /\ ret.op = "write"
    /\ ret.arg = "AssignedReviewers"
    /\ Reviewers(ret.id)[1] # ret.out[1]

\* the goroutine g is between its lock and its unlock
InCritical(g) == pc[g] \in {"check", "commit", "unlock"}

\* C15: while a mutating operation is between its lock and its unlock no
\* other operation is; only read-only operations are there together; and
\* an operation that draws from s.rnd is there under the write lock only.
LockDiscipline ==
    \A g \in Goroutines :
       InCritical(g)
       => /\ calls[g].op \in MutatingOps
             => \A h \in Goroutines \ {g} : ~InCritical(h)
          /\ calls[g].op \in RandomOps => mu.writer /\ mu.readers = 0

\* a goroutine is about to pick reviewers for a new pull request while the
\* other one waits for the lock to read it
LockDisciplineWitness ==
    \E g \in Goroutines, h \in Goroutines :
       /\ pc[g] = "commit"
       /\ calls[g].op = "CreatePullRequest"
       /\ ~calls[g].seen
       /\ ValidAuthor(calls[g].arg)
       /\ pc[h] = "lock"
       /\ calls[h].op = "GetPullRequest"

\* the call of g has returned
Returned(g) == pc[g] \in {"unlock", "idle"} /\ calls[g].err # ""

\* the call of g succeeded and the call of h met what g created
OnlyWinner(g, h, errExists) ==
    /\ calls[g].err = ErrNil
    /\ calls[h].err = errExists

\* C20: of two CreatePullRequest calls made with the same ID while it was
\* new (and a valid author) exactly one returns no error, the other
\* ErrPullRequestExists, and the stored pull request is the one the
\* successful call returned; of two CreateTeam calls made with the same name
\* while it was new exactly one returns no error, the other ErrTeamExists,
\* and the team and its members are as the successful call returned them.
OneCreates ==
    \A g \in Goroutines : \A h \in Goroutines \ {g} :
       (/\ Returned(g) /\ Returned(h)
        /\ calls[g].pre /\ calls[h].pre
        /\ calls[g].op = calls[h].op
        /\ calls[g].id = calls[h].id)
       => /\ calls[g].op = "CreatePullRequest"
             => \/ OnlyWinner(g, h, ErrPullRequestExists)
                   /\ prs[calls[g].id] = calls[g].out[1]
                \/ OnlyWinner(h, g, ErrPullRequestExists)
                   /\ prs[calls[h].id] = calls[h].out[1]
          /\ calls[g].op = "CreateTeam"
             => \/ OnlyWinner(g, h, ErrTeamExists)
                   /\ buildTeamLocked(users, calls[g].id, teams[calls[g].id])
                        = calls[g].out[1]
                \/ OnlyWinner(h, g, ErrTeamExists)
                   /\ buildTeamLocked(users, calls[h].id, teams[calls[h].id])
                        = calls[h].out[1]

\* two CreateTeam calls with different members, made while the name was
\* new, have both returned
OneCreatesWitness ==
    /\ Returned("g1") /\ Returned("g2")
    /\ calls["g1"].op = "CreateTeam" /\ calls["g2"].op = "CreateTeam"
    /\ calls["g1"].pre /\ calls["g2"].pre
    /\ calls["g1"].arg # calls["g2"].arg

\* the mutex is held exactly as the calls between lock and unlock hold it
HeldByCallers ==
    /\ mu.writer
         = (\E g \in Goroutines : InCritical(g) /\ LockKind(calls[g].op) = "Lock")
    /\ mu.readers
         = Cardinality({g \in Goroutines :
                           InCritical(g) /\ LockKind(calls[g].op) = "RLock"})

\* C21: the mutex is held by the calls between their lock and their unlock
\* and by nothing else, whatever they return, and with a fair lock every
\* call that has started returns.
EveryCallReturns ==
    /\ []HeldByCallers
    /\ \A g \in Goroutines : (pc[g] # "idle") ~> (pc[g] = "idle")

\* a call has returned an error and the mutex is free again, while the other
\* goroutine waits to take it
EveryCallReturnsWitness ==
    \E g \in Goroutines, h \in Goroutines :
       /\ pc[g] = "idle"
       /\ calls[g].err \notin {"", ErrNil}
       /\ calls[g].op \in MutatingOps
       /\ pc[h] = "lock"
       /\ ~mu.writer /\ mu.readers = 0


\* C22: while no team is named "", every registered user has a non-empty
\* TeamName that names an existing team and every assigned reviewer is a
\* registered user; so CreatePullRequest never returns ErrTeamNotFound and
\* ReassignReviewer never returns ErrUserNotFound or ErrTeamNotFound.
NamedTeamsKeepReferences ==
    "" \notin DOMAIN teams
    => /\ \A u \in DOMAIN users :
             /\ users[u].TeamName # ""
             /\ users[u].TeamName \in DOMAIN teams
       /\ \A id \in DOMAIN prs : Range(Reviewers(id)) \subseteq DOMAIN users
       /\ ret.op = "CreatePullRequest" => ret.err # ErrTeamNotFound
       /\ ret.op = "ReassignReviewer"
          => ret.err \notin {ErrUserNotFound, ErrTeamNotFound}

\* a reviewer who moved to another team than the author's after the
\* assignment has just been replaced
NamedTeamsKeepReferencesWitness ==
    /\ "" \notin DOMAIN teams
    /\ Succeeded("ReassignReviewer")
    /\ users[ret.arg].TeamName # users[prs[ret.id].AuthorID].TeamName


\* the members of the team of the author of the pull request id
AuthorsTeam(id) ==
    LET name == users[prs[id].AuthorID].TeamName
    IN  IF name \in DOMAIN teams THEN teams[name] ELSE {}

\* C23: when no user changes team, every reviewer of every pull request is
\* a member of the team of the pull request's author, after
\* CreatePullRequest and after any number of ReassignReviewer calls.
ReviewersInAuthorsTeam ==
    \A id \in DOMAIN prs : Range(Reviewers(id)) \subseteq AuthorsTeam(id)

\* a reviewer has just been replaced by a teammate of the author while
\* another team has an active member
ReviewersInAuthorsTeamWitness ==
    /\ Succeeded("ReassignReviewer")
    /\ ret.out[1].ReplacedBy \in AuthorsTeam(ret.id)
    /\ \E u \in DOMAIN users :
          /\ users[u].IsActive
          /\ users[u].TeamName # users[prs[ret.id].AuthorID].TeamName

====
